---------------------------- MODULE Spec2Model ----------------------------
(***************************************************************************)
(* StilBar-Converter: the CSV-backed compound table, the hash-based        *)
(* compound manager (hash_compound_manager.py), the SMILES resolver        *)
(* (fixed_smiles_generator.py), the legacy deletion backend                *)
(* (deletion_backend.py) and the two handlers of the Streamlit app that    *)
(* mutate the table (working_stilbar_app.py).                              *)
(*                                                                         *)
(* A Python str is a sequence of one-character strings.  The en dash       *)
(* U+2013 of the notation is written "ndash".  A SMILES of the built-in    *)
(* monomer table is kept as one opaque token.  A CSV file is NoFile or the *)
(* sequence of its rows, header row included; a row is a sequence of       *)
(* fields.  A dict is the sequence of its <<key, value>> items in          *)
(* insertion order.                                                        *)
(***************************************************************************)
EXTENDS Integers, Sequences, FiniteSets, TLC

(***************************************************************************)
(* Python str operations                                                   *)
(***************************************************************************)
Whitespace == {" ", "\t", "\n"}

Digits == <<"0", "1", "2", "3", "4", "5", "6", "7", "8", "9">>

DigitSet == {Digits[i] : i \in 1..10}

\* str.lstrip()
RECURSIVE LStrip(_)
LStrip(s) ==
    IF s # <<>> /\ Head(s) \in Whitespace THEN LStrip(Tail(s)) ELSE s

\* str.rstrip()
RECURSIVE RStrip(_)
RStrip(s) ==
    IF s # <<>> /\ s[Len(s)] \in Whitespace
    THEN RStrip(SubSeq(s, 1, Len(s) - 1))
    ELSE s

\* str.strip()
Strip(s) == RStrip(LStrip(s))

\* s.startswith(p)
StartsWith(s, p) == Len(p) <= Len(s) /\ SubSeq(s, 1, Len(p)) = p

\* s.endswith(p)
EndsWith(s, p) ==
    Len(p) <= Len(s) /\ SubSeq(s, Len(s) - Len(p) + 1, Len(s)) = p

\* sub in s
Contains(s, sub) ==
    \E i \in 1..(Len(s) - Len(sub) + 1) : SubSeq(s, i, i + Len(sub) - 1) = sub

\* s.replace(old, new), old non-empty: leftmost non-overlapping occurrences
RECURSIVE Replace(_, _, _)
Replace(s, old, new) ==
    IF s = <<>> THEN <<>>
    ELSE IF StartsWith(s, old)
         THEN new \o Replace(SubSeq(s, Len(old) + 1, Len(s)), old, new)
         ELSE <<Head(s)>> \o Replace(Tail(s), old, new)

\* re.sub(r'\s+', '', s)
RemoveWhitespace(s) == SelectSeq(s, LAMBDA c : c \notin Whitespace)

DigitValue(c) == CHOOSE i \in 0..9 : Digits[i + 1] = c

RECURSIVE DigitsToNat(_)
DigitsToNat(s) ==
    IF s = <<>> THEN 0
    ELSE 10 * DigitsToNat(SubSeq(s, 1, Len(s) - 1)) + DigitValue(s[Len(s)])

\* The text int() accepts: optional sign, then decimal digits (after strip).
IsIntLiteral(s) ==
    LET t == Strip(s)
        d == IF t # <<>> /\ Head(t) \in {"+", "-"} THEN Tail(t) ELSE t
    IN  d # <<>> /\ \A i \in 1..Len(d) : d[i] \in DigitSet

\* int(s) for a text that IsIntLiteral
ParseInt(s) ==
    LET t == Strip(s)
    IN  IF Head(t) = "-" THEN 0 - DigitsToNat(Tail(t))
        ELSE IF Head(t) = "+" THEN DigitsToNat(Tail(t))
        ELSE DigitsToNat(t)

RECURSIVE NatToStr(_)
NatToStr(n) ==
    IF n < 10 THEN <<Digits[n + 1]>>
    ELSE NatToStr(n \div 10) \o <<Digits[(n % 10) + 1]>>

\* str(n)
IntToStr(n) == IF n < 0 THEN <<"-">> \o NatToStr(0 - n) ELSE NatToStr(n)

(***************************************************************************)
(* Python dict operations (insertion ordered)                              *)
(***************************************************************************)
DictKeys(d) == {d[i][1] : i \in 1..Len(d)}

\* key in d
HasKey(d, k) == k \in DictKeys(d)

\* d[k] for a key that is in d
DictGet(d, k) == d[CHOOSE i \in 1..Len(d) : d[i][1] = k][2]

\* d[k] = v: an existing key keeps its position
DictSet(d, k, v) ==
    IF HasKey(d, k)
    THEN [i \in 1..Len(d) |-> IF d[i][1] = k THEN <<k, v>> ELSE d[i]]
    ELSE Append(d, <<k, v>>)

\* del d[k]
DictDel(d, k) == SelectSeq(d, LAMBDA item : item[1] # k)

\* list(d.values())
DictValues(d) == [i \in 1..Len(d) |-> d[i][2]]

(***************************************************************************)
(* Values                                                                  *)
(***************************************************************************)
\* Python None (DictReader's restval for a field the row does not have)
None == <<"None">>

\* not v, for v a str or None
Falsy(v) == v = None \/ v = <<>>

\* the header row written by create_perfect_csv.py
Header == << <<"num">>, <<"compound_name">>, <<"barcode">>, <<"smiles">> >>

NoFile == [exists |-> FALSE, rows |-> <<>>]

File(rows) == [exists |-> TRUE, rows |-> rows]

\* csv.writer writes None as the empty field
WrittenRow(row) == [i \in 1..Len(row) |-> IF row[i] = None THEN <<>> ELSE row[i]]

WrittenRows(rows) == [i \in 1..Len(rows) |-> WrittenRow(rows[i])]

\* open(path, 'w') followed by writer.writerows(rows).  fault is "none",
\* "open" (open raises and the file is untouched) or "truncated" (open has
\* emptied the file and the write raises before a row is stored).
WriteFile(old, rows, fault) ==
    CASE fault = "none" ->
            [file |-> File(WrittenRows(rows)), raised |-> FALSE]
      [] fault = "open" ->
            [file |-> old, raised |-> TRUE]
      [] fault = "truncated" ->
            [file |-> File(<<>>), raised |-> TRUE]

\* csv.DictReader: the rows after the first, blank rows skipped
DictRows(rows) ==
    IF rows = <<>> THEN <<>>
    ELSE SelectSeq(Tail(rows), LAMBDA row : row # <<>>)

\* position of the column called name (a later duplicate wins), 0 if none
FieldIndex(header, name) ==
    IF \E i \in 1..Len(header) : header[i] = name
    THEN CHOOSE i \in 1..Len(header) :
            /\ header[i] = name
            /\ \A j \in (i + 1)..Len(header) : header[j] # name
    ELSE 0

\* row.get(name, default) on a DictReader row
RowGet(header, row, name, default) ==
    LET i == FieldIndex(header, name)
    IN  IF i = 0 THEN default
        ELSE IF i > Len(row) THEN None
        ELSE row[i]

(***************************************************************************)
(* Identity function                                                       *)
(***************************************************************************)
\* s.replace(old, new, 1): the leftmost occurrence only
RECURSIVE ReplaceFirst(_, _, _)
ReplaceFirst(s, old, new) ==
    IF s = <<>> THEN <<>>
    ELSE IF StartsWith(s, old)
         THEN new \o SubSeq(s, Len(old) + 1, Len(s))
         ELSE <<Head(s)>> \o ReplaceFirst(Tail(s), old, new)

\* the code cleaned of its first internal space only
CleanStilbar_first(stilbar_code) ==
    Replace(ReplaceFirst(Strip(stilbar_code), <<" ">>, <<>>),
            <<"-">>, <<"ndash">>)

\* the code cleaned with its hyphens left as they are
CleanStilbar_hyphens(stilbar_code) ==
    Replace(Strip(stilbar_code), <<" ">>, <<>>)

\* stilbar_code.strip().replace(' ', '').replace('-', 'ndash')
CleanStilbar(stilbar_code) ==
    Replace(Replace(Strip(stilbar_code), <<" ">>, <<>>), <<"-">>, <<"ndash">>)

\* f"{clean_stilbar}|{compound_name.strip()}"
Combined(stilbar_code, compound_name) ==
    CleanStilbar(stilbar_code) \o <<"|">> \o Strip(compound_name)

\* hashlib.sha256(combined.encode('utf-8')).hexdigest()[:8], tabulated with
\* the digests Python computes for the texts the model hashes
Sha256Hex8(combined) ==
    CASE combined = <<"|", "A">>
           -> <<"7", "d", "3", "2", "a", "6", "9", "d">>
      [] combined = <<"|", "B">>
           -> <<"e", "6", "e", "d", "2", "4", "f", "e">>
      [] combined = <<"|", "I">>
           -> <<"8", "8", "5", "5", "f", "8", "7", "5">>
      [] combined = <<"H", "|", "A">>
           -> <<"1", "a", "2", "7", "2", "5", "a", "8">>
      [] combined = <<"H", "|", "B">>
           -> <<"9", "6", "c", "d", "c", "0", "4", "e">>
      [] combined = <<"H", "|", "I">>
           -> <<"d", "4", "d", "1", "a", "d", "0", "4">>
      [] combined = <<"H", "ndash", "7", "|", "A">>
           -> <<"f", "9", "7", "3", "d", "7", "2", "e">>
      [] combined = <<"H", "ndash", "7", "|", "B">>
           -> <<"a", "5", "3", "4", "1", "5", "1", "4">>
      [] combined = <<"H", "ndash", "7", "|", "I">>
           -> <<"0", "6", "1", "9", "1", "8", "3", "3">>
      [] combined = <<"H", "-", "7", "|", "A">>
           -> <<"f", "d", "6", "2", "8", "f", "8", "a">>
      [] combined = <<"H", "-", "7", "|", "B">>
           -> <<"e", "9", "1", "1", "f", "4", "3", "4">>
      [] combined = <<"H", "-", "7", "|", "I">>
           -> <<"0", "5", "5", "9", "6", "2", "9", "6">>
      [] combined = <<"T", "|", "A">>
           -> <<"3", "f", "3", "2", "b", "d", "d", "7">>
      [] combined = <<"T", "|", "B">>
           -> <<"4", "4", "f", "5", "5", "4", "4", "0">>
      [] combined = <<"T", "|", "I">>
           -> <<"5", "2", "4", "6", "0", "3", "1", "a">>
      [] combined = <<"T", "|", "ndash", "4", "|", "H", "|", "A">>
           -> <<"f", "0", "b", "8", "4", "f", "9", "f">>
      [] combined = <<"T", "|", "ndash", "4", "|", "H", "|", "B">>
           -> <<"9", "b", "8", "8", "2", "1", "6", "1">>
      [] combined = <<"T", "|", "ndash", "4", "|", "H", "|", "I">>
           -> <<"4", "d", "a", "5", "b", "7", "d", "c">>
      [] combined = <<"H", "|", "ndash", "4", "|", "T", "|", "B">>
           -> <<"a", "8", "a", "8", "e", "2", "1", "0">>
      [] combined = <<"A", "|", "A">>
           -> <<"a", "b", "d", "e", "a", "9", "8", "3">>
      [] combined = <<"A", "|", "B">>
           -> <<"c", "f", "b", "6", "e", "8", "8", "3">>
      [] combined = <<"A", "|", "I">>
           -> <<"b", "0", "9", "a", "f", "e", "c", "0">>
      [] combined = <<"B", "|", "A">>
           -> <<"0", "d", "f", "1", "a", "f", "e", "6">>
      [] combined = <<"B", "|", "B">>
           -> <<"f", "f", "a", "4", "5", "d", "b", "1">>
      [] combined = <<"B", "|", "I">>
           -> <<"a", "c", "f", "7", "c", "8", "b", "7">>
      [] combined = <<"I", "|", "A">>
           -> <<"1", "f", "1", "f", "7", "a", "4", "9">>
      [] combined = <<"I", "|", "B">>
           -> <<"1", "3", "c", "c", "e", "c", "9", "7">>
      [] combined = <<"I", "|", "I">>
           -> <<"a", "4", "d", "6", "6", "a", "9", "7">>
      [] combined = <<"1", "|", "B">>
           -> <<"0", "a", "a", "b", "1", "d", "6", "2">>

generate_hash(stilbar_code, compound_name) ==
    Sha256Hex8(Combined(stilbar_code, compound_name))

(***************************************************************************)
(* HashCompoundManager (hash_compound_manager.py)                          *)
(* A manager is [compounds, stilbar_to_hash], both dicts.                  *)
(***************************************************************************)
EmptyManager == [compounds |-> <<>>, stilbar_to_hash |-> <<>>]

\* One pass of the loop body of load_compounds over a DictReader row.  m.raised
\* is set when the body raises (a field that is None has no strip()).
LoadRow(m, header, row) ==
    LET num      == RowGet(header, row, <<"num">>, None)
        rawsmi   == RowGet(header, row, <<"smiles">>, None)
        rawcode  == RowGet(header, row, <<"barcode">>, <<>>)
        rawname  == RowGet(header, row, <<"compound_name">>, <<>>)
    IN  IF Falsy(num) \/ Falsy(rawsmi) THEN m
        ELSE IF rawcode = None \/ rawname = None THEN [m EXCEPT !.raised = TRUE]
        ELSE
          LET stilbar_code  == Strip(rawcode)
              compound_name == Strip(rawname)
              smiles        == Strip(rawsmi)
              hash_key == generate_hash(
                              IF stilbar_code # <<>> THEN stilbar_code
                                                     ELSE compound_name,
                              compound_name)
              compound_data == [hash         |-> hash_key,
                                name         |-> compound_name,
                                stilbar      |-> stilbar_code,
                                smiles       |-> smiles,
                                original_num |-> num]
          IN  [m EXCEPT
                 !.compounds = DictSet(@, hash_key, compound_data),
                 !.stilbar_to_hash =
                     IF stilbar_code # <<>>
                     THEN DictSet(@, stilbar_code, hash_key)
                     ELSE @]

RECURSIVE LoadRows(_, _, _)
LoadRows(m, header, rows) ==
    IF rows = <<>> \/ m.raised THEN m
    ELSE LoadRows(LoadRow(m, header, Head(rows)), header, Tail(rows))

\* load_compounds(): clears both dicts, then reads the table; a missing file
\* and any exception of the loop are caught and leave what was loaded so far.
load_compounds(file) ==
    IF ~file.exists \/ file.rows = <<>> THEN EmptyManager
    ELSE LET m == LoadRows([compounds |-> <<>>, stilbar_to_hash |-> <<>>,
                            raised |-> FALSE],
                           Head(file.rows), DictRows(file.rows))
         IN  [compounds |-> m.compounds, stilbar_to_hash |-> m.stilbar_to_hash]

\* get_compound_by_stilbar(stilbar_code): the record, or None
get_compound_by_stilbar(m, stilbar_code) ==
    IF HasKey(m.stilbar_to_hash, stilbar_code)
       /\ HasKey(m.compounds, DictGet(m.stilbar_to_hash, stilbar_code))
    THEN DictGet(m.compounds, DictGet(m.stilbar_to_hash, stilbar_code))
    ELSE None

\* "if compound:" of a caller: get_compound_by_stilbar returned a record
FoundByCode(m, stilbar_code) ==
    /\ HasKey(m.stilbar_to_hash, stilbar_code)
    /\ HasKey(m.compounds, DictGet(m.stilbar_to_hash, stilbar_code))

\* get_all_compounds()
get_all_compounds(m) == DictValues(m.compounds)

\* _add_to_csv(compound_data): [file, raised]
add_to_csv(file, compound_data, fault) ==
    IF ~file.exists THEN [file |-> file, raised |-> TRUE]
    ELSE LET new_row == <<compound_data.hash, compound_data.name,
                          compound_data.stilbar, compound_data.smiles>>
         IN  WriteFile(file, Append(file.rows, new_row), fault)

\* add_compound lines 96-113, after the duplicate check: store in memory,
\* then append the row to the table
store_and_persist(m, file, name, stilbar_code, smiles, fault) ==
    LET hash_key == generate_hash(stilbar_code, name)
        compound_data == [hash         |-> hash_key,
                          name         |-> name,
                          stilbar      |-> stilbar_code,
                          smiles       |-> smiles,
                          original_num |-> IntToStr(Len(m.compounds) + 1)]
        stored == [compounds |-> DictSet(m.compounds, hash_key, compound_data),
                   stilbar_to_hash |->
                       IF stilbar_code # <<>>
                       THEN DictSet(m.stilbar_to_hash, stilbar_code, hash_key)
                       ELSE m.stilbar_to_hash]
        w == add_to_csv(file, compound_data, fault)
    IN  [m |-> stored, file |-> w.file,
         raised |-> IF w.raised THEN "Exception" ELSE "",
         hash |-> hash_key]

\* add_compound with the duplicate check left out
add_compound_overwriting(m, file, name, stilbar_code, smiles, fault) ==
    store_and_persist(m, file, name, stilbar_code, smiles, fault)

\* add_compound(name, stilbar_code, smiles):
\* [m, file, raised ("", "ValueError", "Exception"), hash]
add_compound(m, file, name, stilbar_code, smiles, fault) ==
    LET hash_key == generate_hash(stilbar_code, name)
    IN  IF HasKey(m.compounds, hash_key)
        THEN [m |-> m, file |-> file, raised |-> "ValueError", hash |-> hash_key]
        ELSE store_and_persist(m, file, name, stilbar_code, smiles, fault)

\* _remove_from_csv, reading: [header] + [[row.get(f, '') for f in header]]
ReadForRemove(rows) ==
    LET header == Head(rows)
        body   == DictRows(rows)
    IN  <<header>> \o
        [i \in 1..Len(body) |->
            [j \in 1..Len(header) |-> RowGet(header, body[i], header[j], <<>>)]]

\* the row matches one of the compounds to delete by name, code and SMILES
ShouldDelete(row, comps) ==
    \E i \in 1..Len(comps) :
        /\ Strip(row[2]) = comps[i].name
        /\ Strip(row[3]) = comps[i].stilbar
        /\ Strip(row[4]) = comps[i].smiles

\* a row of four or more fields whose name, code or SMILES is None
RowRaises(row) ==
    Len(row) >= 4 /\ (row[2] = None \/ row[3] = None \/ row[4] = None)

\* _remove_from_csv(hash_keys): [file, raised].  comps are the records of
\* self.compounds for the keys still in it.
remove_from_csv(m, file, hash_keys, fault) ==
    IF ~file.exists \/ file.rows = <<>>
    THEN [file |-> file, raised |-> TRUE]
    ELSE
      LET existing_data == ReadForRemove(file.rows)
          present == SelectSeq(hash_keys, LAMBDA h : HasKey(m.compounds, h))
          comps   == [i \in 1..Len(present) |-> DictGet(m.compounds, present[i])]
          data    == Tail(existing_data)
      IN  IF \E i \in 1..Len(data) : RowRaises(data[i])
          THEN [file |-> file, raised |-> TRUE]
          ELSE WriteFile(file,
                         <<existing_data[1]>> \o
                         SelectSeq(data, LAMBDA row :
                             Len(row) >= 4 /\ ~ShouldDelete(row, comps)),
                         fault)

\* "Hash not found: h"
HashNotFound(h) == <<"Hash not found", h>>

NoValidCompounds == <<"No valid compounds found to delete">>

ExceptionDuringDeletion == <<"Exception during deletion">>

\* the loop "Remove from memory" of delete_compounds over compounds_to_delete:
\* [m, deleted, raised]; del of a key already deleted raises KeyError
RECURSIVE RemoveFromMemory(_, _, _)
RemoveFromMemory(m, deleted, todo) ==
    IF todo = <<>> THEN [m |-> m, deleted |-> deleted, raised |-> FALSE]
    ELSE
      LET compound == Head(todo)
      IN  IF ~HasKey(m.compounds, compound.hash)
          THEN [m |-> m, deleted |-> deleted, raised |-> TRUE]
          ELSE RemoveFromMemory(
                 [compounds |-> DictDel(m.compounds, compound.hash),
                  stilbar_to_hash |->
                      IF compound.stilbar # <<>>
                         /\ HasKey(m.stilbar_to_hash, compound.stilbar)
                      THEN DictDel(m.stilbar_to_hash, compound.stilbar)
                      ELSE m.stilbar_to_hash],
                 Append(deleted, [hash    |-> compound.hash,
                                  name    |-> compound.name,
                                  stilbar |-> compound.stilbar]),
                 Tail(todo))

\* the backup taken only after the table is rewritten
remove_before_backup(m, file, backup, hash_keys, errors, bfault, fault) ==
    LET present == SelectSeq(hash_keys, LAMBDA h : HasKey(m.compounds, h))
        compounds_to_delete ==
            [i \in 1..Len(present) |-> DictGet(m.compounds, present[i])]
        removed == remove_from_csv(m, file, present, fault)
        copy == IF ~removed.file.exists THEN [file |-> backup, raised |-> TRUE]
                ELSE WriteFile(backup, removed.file.rows, bfault)
        mem == RemoveFromMemory(m, <<>>, compounds_to_delete)
        ok == ~removed.raised /\ ~copy.raised /\ ~mem.raised
    IN  [m |-> IF ok THEN mem.m ELSE m,
         file |-> removed.file,
         backup |-> copy.file,
         result |->
           [success |-> ok,
            deleted_count |-> IF ok THEN Len(compounds_to_delete) ELSE 0,
            deleted_compounds |-> IF ok THEN mem.deleted ELSE <<>>,
            errors |-> IF ok THEN errors
                       ELSE Append(errors, ExceptionDuringDeletion)]]

\* delete_compounds lines 137-165: backup, table, memory
backup_and_remove(m, file, backup, hash_keys, errors, bfault, fault) ==
    LET present == SelectSeq(hash_keys, LAMBDA h : HasKey(m.compounds, h))
        compounds_to_delete ==
            [i \in 1..Len(present) |-> DictGet(m.compounds, present[i])]
        failed(mm, f, b, deleted) ==
            [m |-> mm, file |-> f, backup |-> b,
             result |-> [success |-> FALSE, deleted_count |-> 0,
                         deleted_compounds |-> deleted,
                         errors |-> Append(errors, ExceptionDuringDeletion)]]
        copy == IF ~file.exists THEN [file |-> backup, raised |-> TRUE]
                ELSE WriteFile(backup, file.rows, bfault)
    IN  IF copy.raised THEN failed(m, file, copy.file, <<>>)
        ELSE
          LET removed == remove_from_csv(
                             m, file,
                             [i \in 1..Len(compounds_to_delete) |->
                                 compounds_to_delete[i].hash],
                             fault)
          IN  IF removed.raised THEN failed(m, removed.file, copy.file, <<>>)
              ELSE
                LET mem == RemoveFromMemory(m, <<>>, compounds_to_delete)
                IN  IF mem.raised
                    THEN failed(mem.m, removed.file, copy.file, mem.deleted)
                    ELSE [m |-> mem.m, file |-> removed.file,
                          backup |-> copy.file,
                          result |->
                            [success |-> TRUE,
                             deleted_count |-> Len(compounds_to_delete),
                             deleted_compounds |-> mem.deleted,
                             errors |-> errors]]

\* delete_compounds without the return for a request that names no compound
\* of the store
delete_compounds_unvalidated(m, file, backup, hash_keys, bfault, fault) ==
    LET absent == SelectSeq(hash_keys, LAMBDA h : ~HasKey(m.compounds, h))
        errors == [i \in 1..Len(absent) |-> HashNotFound(absent[i])]
    IN  backup_and_remove(m, file, backup, hash_keys, errors, bfault, fault)

\* delete_compounds(hash_keys): [m, file, backup, result]
delete_compounds(m, file, backup, hash_keys, bfault, fault) ==
    LET absent == SelectSeq(hash_keys, LAMBDA h : ~HasKey(m.compounds, h))
        errors == [i \in 1..Len(absent) |-> HashNotFound(absent[i])]
    IN  IF \A i \in 1..Len(hash_keys) : ~HasKey(m.compounds, hash_keys[i])
        THEN [m |-> m, file |-> file, backup |-> backup,
              result |-> [success |-> FALSE, deleted_count |-> 0,
                          deleted_compounds |-> <<>>,
                          errors |-> Append(errors, NoValidCompounds)]]
        ELSE backup_and_remove(m, file, backup, hash_keys, errors, bfault, fault)

(***************************************************************************)
(* FixedSMILESGenerator (fixed_smiles_generator.py)                        *)
(* A generator is [compound_number_to_smiles, barcode_to_smiles,           *)
(* compound_info], all dicts.  A compound number in a result's metadata is *)
(* written as its str().                                                   *)
(***************************************************************************)
EmptyGenerator ==
    [compound_number_to_smiles |-> <<>>, barcode_to_smiles |-> <<>>,
     compound_info |-> <<>>]

CpdSuffix == <<"_", "c", "p", "d">>

CompoundPrefix == <<"c", "o", "m", "p", "o", "u", "n", "d", "_">>

Unknown == <<"Unknown">>

\* the body of "if num and smiles" of _load_all_62_compounds: the compound is
\* stored under its number and, if it has one, under its barcode
StoreCompound(g, num, name, barcode, smiles) ==
    LET info(dup) == [number |-> IntToStr(num), name |-> name,
                      barcode |-> barcode, smiles |-> smiles,
                      is_duplicate |-> dup]
        byNumber ==
            [g EXCEPT
               !.compound_number_to_smiles = DictSet(@, IntToStr(num), smiles),
               !.compound_info =
                   DictSet(@, CompoundPrefix \o IntToStr(num), info(FALSE))]
        unique_barcode == barcode \o CpdSuffix \o IntToStr(num)
    IN  IF barcode = <<>> THEN byNumber
        ELSE IF HasKey(g.barcode_to_smiles, barcode)
             THEN [byNumber EXCEPT
                     !.barcode_to_smiles = DictSet(@, unique_barcode, smiles),
                     !.compound_info = DictSet(@, unique_barcode, info(TRUE))]
             ELSE [byNumber EXCEPT
                     !.barcode_to_smiles = DictSet(@, barcode, smiles),
                     !.compound_info = DictSet(@, barcode, info(FALSE))]

\* the loop body with a compound numbered by its position among the
\* compounds loaded, whatever its number column says
GenLoadRow_positional(g, row) ==
    IF ~(Len(row) >= 4 /\ Strip(row[1]) # <<>>) THEN g
    ELSE IF ~IsIntLiteral(Strip(row[1])) THEN g
    ELSE IF ~(ParseInt(Strip(row[1])) # 0 /\ Strip(row[4]) # <<>>) THEN g
    ELSE StoreCompound(g, Len(g.compound_number_to_smiles) + 1,
                       Strip(row[2]), Strip(row[3]), Strip(row[4]))

\* the loop body of _load_all_62_compounds over a csv.reader row; int()
\* raising ValueError skips the row
GenLoadRow(g, row) ==
    IF ~(Len(row) >= 4 /\ Strip(row[1]) # <<>>) THEN g
    ELSE IF ~IsIntLiteral(Strip(row[1])) THEN g
    ELSE IF ~(ParseInt(Strip(row[1])) # 0 /\ Strip(row[4]) # <<>>) THEN g
    ELSE StoreCompound(g, ParseInt(Strip(row[1])), Strip(row[2]),
                       Strip(row[3]), Strip(row[4]))

RECURSIVE GenLoadRows(_, _)
GenLoadRows(g, rows) ==
    IF rows = <<>> THEN g ELSE GenLoadRows(GenLoadRow(g, Head(rows)), Tail(rows))

\* _load_all_62_compounds() into g: the first file of csv_files that exists is
\* read; next(reader) on a file without rows raises StopIteration, which
\* nothing catches.  [g, raised]
RECURSIVE load_all_62_compounds(_, _)
load_all_62_compounds(g, csv_files) ==
    IF csv_files = <<>> THEN [g |-> g, raised |-> FALSE]
    ELSE IF ~Head(csv_files).exists
         THEN load_all_62_compounds(g, Tail(csv_files))
         ELSE IF Head(csv_files).rows = <<>>
              THEN [g |-> g, raised |-> TRUE]
              ELSE [g |-> GenLoadRows(g, Tail(Head(csv_files).rows)),
                    raised |-> FALSE]

\* reload_database() with the three dicts left as they are before the load
reload_database_keeping(g, csv_files) == load_all_62_compounds(g, csv_files)

\* reload_database() on the generator g: its three dicts are cleared, then
\* the files are loaded
reload_database(g, csv_files) ==
    load_all_62_compounds(EmptyGenerator, csv_files)

BasicSmilesH == <<"OC1=CC(O)=CC(CCC2=CC=C(O)C=C2)=C1">>

\* basic_monomers of generate_smiles
basic_monomers(g) ==
    << << <<"H">>, IF HasKey(g.compound_number_to_smiles, <<"1">>)
                   THEN DictGet(g.compound_number_to_smiles, <<"1">>)
                   ELSE BasicSmilesH >>,
       << <<"T">>, <<"c1cc(O)cc(c1)C=Cc2cc(O)cc(O)c2">> >>,
       << <<"C">>, <<"c1cc(O)cc(c1)C=Cc2cc(O)cc(O)c2">> >>,
       << <<"P">>, <<"COc1cc(CCc2cc(O)cc(O)c2)cc(O)c1">> >>,
       << <<"M">>, <<"COc1cc(O)cc(c1)CCc2cc(O)cc(O)c2">> >>,
       << <<"X">>, <<"c1cc(O)cc(c1)CCc2cc(O)cc(OC)c2">> >> >>

\* a result of generate_smiles: the SMILES (None when not found) and the
\* metadata; confidence is in tenths (10 is 1.0, 8 is 0.8)
Found(g, key, smiles, type, confidence, method, note) ==
    LET known == HasKey(g.compound_info, key)
        info  == DictGet(g.compound_info, key)
    IN  [smiles          |-> smiles,
         type            |-> type,
         confidence      |-> confidence,
         method          |-> method,
         compound_number |-> IF known THEN info.number ELSE Unknown,
         compound_name   |-> IF known THEN info.name ELSE Unknown,
         note            |-> note]

\* the guard of Method 1c without the test for the brackets
Method1c_unbracketed(g, clean_code, normalized_code) ==
    \E i \in 1..Len(g.barcode_to_smiles) :
        \/ Contains(g.barcode_to_smiles[i][1], clean_code)
        \/ Contains(g.barcode_to_smiles[i][1], normalized_code)

\* the keys of barcode_to_smiles, in order, that Method 1c matches
PartialKeys(g, clean_code, normalized_code) ==
    SelectSeq([i \in 1..Len(g.barcode_to_smiles) |-> g.barcode_to_smiles[i][1]],
              LAMBDA barcode : Contains(barcode, clean_code)
                               \/ Contains(barcode, normalized_code))

\* possible_keys of Method 3
DuplicateKeys(g, clean_code) ==
    SelectSeq([i \in 1..Len(g.barcode_to_smiles) |-> g.barcode_to_smiles[i][1]],
              LAMBDA key : StartsWith(key, clean_code \o CpdSuffix))

\* the guards of the methods of generate_smiles, in the order of the code
Method1(g, clean_code) == HasKey(g.barcode_to_smiles, clean_code)

Method1b(g, clean_code, normalized_code) ==
    normalized_code # clean_code /\ HasKey(g.barcode_to_smiles, normalized_code)

Method1c(g, clean_code, normalized_code) ==
    /\ StartsWith(clean_code, <<"|">>)
    /\ EndsWith(clean_code, <<"|">>)
    /\ PartialKeys(g, clean_code, normalized_code) # <<>>

Method2(g, clean_code) == HasKey(g.compound_number_to_smiles, clean_code)

Method3(g, clean_code) == DuplicateKeys(g, clean_code) # <<>>

\* the "compound_" prefix never tried
Method4_skipped(g, clean_code) == FALSE

Method4(g, clean_code) ==
    /\ StartsWith(clean_code, CompoundPrefix)
    /\ HasKey(g.compound_number_to_smiles, Replace(clean_code, CompoundPrefix, <<>>))

Method5(g, clean_code) == HasKey(basic_monomers(g), clean_code)

NotFound ==
    [smiles |-> None, type |-> "", confidence |-> 0, method |-> "lookup_failed",
     compound_number |-> <<>>, compound_name |-> <<>>, note |-> <<>>]

\* generate_smiles(input_code)
generate_smiles(g, input_code) ==
    LET clean_code      == Replace(Strip(input_code), <<" ">>, <<>>)
        normalized_code == Replace(clean_code, <<"-">>, <<"ndash">>)
    IN  IF Method1(g, clean_code)
        THEN Found(g, clean_code, DictGet(g.barcode_to_smiles, clean_code),
                   "exact_match", 10, "barcode_lookup", <<>>)
        ELSE IF Method1b(g, clean_code, normalized_code)
        THEN Found(g, normalized_code,
                   DictGet(g.barcode_to_smiles, normalized_code),
                   "exact_match", 10, "barcode_lookup_normalized",
                   << <<"Converted regular hyphens (-) to en-dashes">> >>)
        ELSE IF Method1c(g, clean_code, normalized_code)
        THEN LET barcode == Head(PartialKeys(g, clean_code, normalized_code))
             IN  Found(g, barcode, DictGet(g.barcode_to_smiles, barcode),
                       "partial_match", 8, "partial_barcode_match",
                       << <<"Partial match">>, clean_code, barcode >>)
        ELSE IF Method2(g, clean_code)
        THEN Found(g, clean_code,
                   DictGet(g.compound_number_to_smiles, clean_code),
                   "exact_match", 10, "compound_number_lookup", <<>>)
        ELSE IF Method3(g, clean_code)
        THEN LET key == Head(DuplicateKeys(g, clean_code))
                 r   == Found(g, key, DictGet(g.barcode_to_smiles, key),
                              "exact_match", 10, "duplicate_barcode_lookup", <<>>)
             IN  [r EXCEPT !.note = << <<"Duplicate barcode resolved to compound">>,
                                       r.compound_number >>]
        ELSE IF Method4(g, clean_code)
        THEN LET num_str == Replace(clean_code, CompoundPrefix, <<>>)
             IN  Found(g, num_str,
                       DictGet(g.compound_number_to_smiles, num_str),
                       "exact_match", 10, "compound_prefix_lookup", <<>>)
        ELSE IF Method5(g, clean_code)
        THEN [smiles          |-> DictGet(basic_monomers(g), clean_code),
              type            |-> "exact_match",
              confidence      |-> 10,
              method          |-> "basic_monomer_lookup",
              compound_number |-> <<"Basic">>,
              compound_name   |-> <<"Basic monomer ">> \o clean_code,
              note            |-> <<>>]
        ELSE NotFound

\* generate_smiles_by_number(compound_number)
generate_smiles_by_number(g, compound_number) ==
    generate_smiles(g, IntToStr(compound_number))

\* get_all_compound_numbers(): sorted numbers, here as the set of them
get_all_compound_numbers(g) ==
    {ParseInt(k) : k \in DictKeys(g.compound_number_to_smiles)}

(***************************************************************************)
(* Hash deletion backend (hash_deletion_backend.py)                        *)
(***************************************************************************)
\* delete_compounds_by_hashes(hash_keys): a manager of its own, loaded from
\* the table, deletes: [file, backup, result]
delete_compounds_by_hashes(file, backup, hash_keys, bfault, fault) ==
    LET d == delete_compounds(load_compounds(file), file, backup, hash_keys,
                              bfault, fault)
    IN  [file |-> d.file, backup |-> d.backup, result |-> d.result]

\* "StilBAR code not found: c"
StilbarNotFound(c) == <<"StilBAR code not found", c>>

NoValidStilbars == <<"No valid StilBAR codes provided">>

\* the hashes of the codes that resolve, in the order of the request
ResolvedHashes(m, stilbar_codes) ==
    LET found == SelectSeq(stilbar_codes, LAMBDA c : FoundByCode(m, c))
    IN  [i \in 1..Len(found) |-> get_compound_by_stilbar(m, found[i]).hash]

\* the errors of the codes that do not resolve
ConversionErrors(m, stilbar_codes) ==
    LET lost == SelectSeq(stilbar_codes, LAMBDA c : ~FoundByCode(m, c))
    IN  [i \in 1..Len(lost) |-> StilbarNotFound(lost[i])]

\* delete_compounds_by_stilbars that deletes the codes it could resolve
delete_by_stilbars_resolved(file, backup, stilbar_codes, bfault, fault) ==
    LET m == load_compounds(file)
        hash_keys == ResolvedHashes(m, stilbar_codes)
    IN  IF hash_keys = <<>>
        THEN [file |-> file, backup |-> backup,
              result |-> [success |-> FALSE, deleted_count |-> 0,
                          errors |-> ConversionErrors(m, stilbar_codes),
                          deleted_compounds |-> <<>>]]
        ELSE delete_compounds_by_hashes(file, backup, hash_keys, bfault, fault)

\* delete_compounds_by_stilbars(stilbar_codes): [file, backup, result]
delete_compounds_by_stilbars(file, backup, stilbar_codes, bfault, fault) ==
    LET m == load_compounds(file)
        hash_keys == ResolvedHashes(m, stilbar_codes)
        conversion_errors == ConversionErrors(m, stilbar_codes)
        refused(errors) ==
            [file |-> file, backup |-> backup,
             result |-> [success |-> FALSE, deleted_count |-> 0,
                         errors |-> errors, deleted_compounds |-> <<>>]]
    IN  IF conversion_errors # <<>> THEN refused(conversion_errors)
        ELSE IF hash_keys = <<>> THEN refused(<<NoValidStilbars>>)
        ELSE delete_compounds_by_hashes(file, backup, hash_keys, bfault, fault)

(***************************************************************************)
(* Legacy deletion backend (deletion_backend.py)                           *)
(***************************************************************************)
\* the filter loop of delete_compounds: rows kept (blank rows are dropped)
LegacyKept(data, ids) ==
    SelectSeq(data, LAMBDA row : Len(row) >= 1 /\ Strip(row[1]) \notin ids)

\* rows deleted by the filter loop
LegacyDeleted(data, ids) ==
    SelectSeq(data, LAMBDA row : Len(row) >= 1 /\ Strip(row[1]) \in ids)

\* delete_compounds(compound_ids, csv_file): [file, backup, result]
legacy_delete_compounds(file, backup, compound_ids, bfault, fault) ==
    LET ids      == {Strip(cid) : cid \in compound_ids}
        before   == Len(file.rows)
        data     == Tail(file.rows)
        filtered == <<Head(file.rows)>> \o LegacyKept(data, ids)
        deleted  == LegacyDeleted(data, ids)
        res(ok, count, after, del, err) ==
            [success |-> ok, deleted_count |-> count, errors |-> err,
             deleted_compounds |-> del, csv_rows_before |-> IF file.exists
                                                            THEN before ELSE 0,
             csv_rows_after |-> after]
    IN  IF ~file.exists
        THEN [file |-> file, backup |-> backup,
              result |-> res(FALSE, 0, 0, <<>>, <<"CSV file not found">>)]
        ELSE IF before <= 1
        THEN [file |-> file, backup |-> backup,
              result |-> res(FALSE, 0, 0, <<>>,
                             <<"CSV file is empty or contains only header">>)]
        ELSE IF Len(deleted) = 0
        THEN [file |-> file, backup |-> backup,
              result |-> res(FALSE, 0, Len(filtered), <<>>,
                             <<"No compounds found with IDs">>)]
        ELSE
          LET copy == WriteFile(backup, file.rows, bfault)
          IN  IF copy.raised
              THEN [file |-> file, backup |-> copy.file,
                    result |-> res(FALSE, Len(deleted), Len(filtered), deleted,
                                   <<"Exception">>)]
              ELSE
                LET w == WriteFile(file, filtered, fault)
                IN  [file |-> w.file, backup |-> copy.file,
                     result |-> res(~w.raised, Len(deleted), Len(filtered),
                                    deleted,
                                    IF w.raised THEN <<"Exception">> ELSE <<>>)]

(***************************************************************************)
(* Streamlit handlers that change the table (working_stilbar_app.py)       *)
(***************************************************************************)
Max(S) == CHOOSE x \in S : \A y \in S : y <= x

\* add_new_compound(name, stilbar, smiles): [g, file, added]
add_new_compound(g, file, fallbacks, name, stilbar, smiles, fault) ==
    LET cleaned_name    == Strip(name)
        cleaned_stilbar == CleanStilbar(stilbar)
        cleaned_smiles  == RemoveWhitespace(smiles)
        invalid == \/ cleaned_name = <<>>
                   \/ cleaned_stilbar = <<>>
                   \/ cleaned_smiles = <<>>
                   \/ HasKey(g.barcode_to_smiles, cleaned_stilbar)
        existing_numbers == get_all_compound_numbers(g)
        next_number == IF existing_numbers # {} THEN Max(existing_numbers) + 1
                                                ELSE 1
        existing_data == IF file.exists THEN file.rows ELSE <<Header>>
        new_row == <<IntToStr(next_number), cleaned_name, cleaned_stilbar,
                     cleaned_smiles>>
        w == WriteFile(file, Append(existing_data, new_row), fault)
    IN  IF invalid THEN [g |-> g, file |-> file, added |-> FALSE]
        ELSE IF w.raised THEN [g |-> g, file |-> w.file, added |-> FALSE]
        ELSE [g |-> reload_database(g, <<w.file>> \o fallbacks).g,
              file |-> w.file, added |-> TRUE]

\* simple_delete_compounds(selected_compounds): delete, and on success
\* reload the manager; the generator is left as it is
simple_delete_compounds(m, file, backup, selected, bfault, fault) ==
    LET d == delete_compounds(m, file, backup, selected, bfault, fault)
    IN  IF d.result.success
        THEN [d EXCEPT !.m = load_compounds(d.file)]
        ELSE d

(***************************************************************************)
(* The texts the operations are called with                                *)
(***************************************************************************)
NameA == <<"A">>
NameB == <<"B">>
NameI == <<"I">>
NameSpaceA == <<" ", "A">>

CodeH == <<"H">>
CodeT == <<"T">>
CodeH7 == <<"H", "ndash", "7">>
CodeH7Hyphen == <<"H", "-", "7">>
CodeFrag == <<"T", "|", "ndash", "4", "|", "H">>
CodeFragHyphen == <<"H", "|", "-", "4", "|", "T">>
CodeOne == <<"1">>

SmilesC == <<"C">>
SmilesN == <<"N">>
SmilesO == <<"O">>

\* tables a session can start from: plain, two compounds sharing a code, a
\* bracketed code and a compound without code, a blank and a short row, and
\* a table in the hash layout
TablePlain ==
    <<Header, <<<<"1">>, NameA, CodeH, SmilesN>>, <<<<"2">>, NameB, CodeH7, SmilesO>> >>

TableDup ==
    <<Header, <<<<"1">>, NameA, CodeH7, SmilesN>>, <<<<"2">>, NameB, CodeH7, SmilesO>> >>

TableFrag ==
    <<Header, <<<<"1">>, NameA, CodeFrag, SmilesN>>, <<<<"2">>, NameB, <<>>, SmilesO>> >>

TableMalformed ==
    <<Header, <<<<"1">>, NameA, CodeH, SmilesN>>, <<>>, <<<<"2">>, NameB>> >>

\* the table add_compound('A', 'H-7', 'C') leaves of a table with its header
\* only
TableHashed ==
    <<Header, <<generate_hash(CodeH7Hyphen, NameA), NameA, CodeH7Hyphen, SmilesC>> >>

InitTables == {TablePlain, TableDup, TableFrag, TableMalformed, TableHashed}

\* (name, code, SMILES) given to add_compound: an identity that TableDup
\* holds, a name with a leading space, an identity made of digits only, a
\* compound without code, the compound without code of TableFrag, and a
\* compound without SMILES
AddTriples ==
    { <<NameA, CodeH7Hyphen, SmilesC>>, <<NameSpaceA, CodeT, SmilesC>>,
      <<NameI, CodeH7Hyphen, SmilesC>>, <<NameA, <<>>, SmilesC>>,
      <<NameB, <<>>, SmilesO>>, <<NameI, CodeT, <<>> >> }

\* (name, code, SMILES) given to add_new_compound; the page takes any text
\* for a code, the last one is a code made of a digit
AddNewTriples ==
    { <<NameA, CodeH7Hyphen, SmilesC>>, <<NameSpaceA, CodeT, <<" ", "C">> >>,
      <<NameA, <<>>, SmilesC>>, <<NameB, CodeFragHyphen, SmilesO>>,
      <<NameB, CodeOne, SmilesO>> }

AbsentHash == <<"0", "0", "0", "0", "0", "0", "0", "0">>

\* codes given to delete_compounds_by_stilbars
StilbarInputs == {CodeH, CodeH7, CodeT}

LegacyIds == {<<"1">>, <<"9">>}

LookupInputs ==
    { CodeH, CodeT, CodeH7, CodeH7Hyphen, <<" ", "H", " ", "ndash", "7">>,
      <<"|", "ndash", "4", "|">>, <<"|", "-", "4", "|">>,
      <<"1">>, <<"2">>, <<"3">>, CompoundPrefix \o <<"1">>,
      CodeH7 \o CpdSuffix \o <<"2">> }

\* bounds of the model: operations that change the table in one run, and
\* the length of a list of keys to delete
MaxOps == 2
MaxBatch == 2

(***************************************************************************)
(* State                                                                   *)
(***************************************************************************)
VARIABLES
    csv_file,    \* Stilabar_Smiles_Perfect.csv
    backup_file, \* Stilabar_Smiles_Perfect.csv.backup
    fallbacks,   \* Stilabar_Smiles_Clean.csv, Stilabar_Smiles.csv
    manager,     \* st.session_state.hash_manager
    generator,   \* st.session_state.generator
    result,      \* the operation in hand: its arguments, the state it
                 \* started from and what it returned
    last,        \* the last operation that changed the table and succeeded
    ops          \* operations on the table so far

vars == <<csv_file, backup_file, fallbacks, manager, generator, result, last,
          ops>>

\* what a write to a file can meet
Faults == {"none", "open", "truncated"}

\* a delete writes the backup and then the table; one of the two may fail
FaultPairs ==
    {<<"none", fault>> : fault \in Faults}
    \cup {<<bfault, "none">> : bfault \in Faults}

\* no operation in hand
Idle == [op |-> "idle"]

\* the state an operation starts from
Pre == [csv_file |-> csv_file, backup_file |-> backup_file,
        manager |-> manager, generator |-> generator, last |-> last]

\* non-empty lists of at most MaxBatch of the given keys
Batches(keys) == UNION {[1..n -> keys] : n \in 1..MaxBatch}

ManagerKeys == DictKeys(manager.compounds)

\* the non-empty selections of the delete page, in the order of the page
Selections ==
    LET all == get_all_compounds(manager)
    IN  { [i \in 1..Cardinality(S) |->
             all[CHOOSE j \in S : Cardinality({k \in S : k < j}) = i - 1].hash]
          : S \in (SUBSET (1..Len(all))) \ {{}} }

Init ==
    /\ csv_file \in {File(t) : t \in InitTables} \cup {NoFile}
    /\ backup_file = NoFile
    /\ fallbacks \in IF csv_file.exists THEN {<<NoFile, NoFile>>}
                     ELSE {<<NoFile, NoFile>>, <<File(TablePlain), NoFile>>}
    /\ manager = load_compounds(csv_file)
    /\ generator = load_all_62_compounds(EmptyGenerator,
                                         <<csv_file>> \o fallbacks).g
    /\ result = Idle
    /\ last = Idle
    /\ ops = 0

\* hash_manager.add_compound(name, stilbar_code, smiles)
AddCompoundWith(name, code, smiles, fault) ==
    LET r == add_compound(manager, csv_file, name, code, smiles, fault)
        call == [op |-> "add", name |-> name, code |-> code,
                 smiles |-> smiles, fault |-> fault]
    IN  /\ result = Idle
        /\ ops < MaxOps
        /\ manager' = r.m
        /\ csv_file' = r.file
        /\ result' = [call |-> call, pre |-> Pre, op |-> "add",
                      raised |-> r.raised, hash |-> r.hash]
        /\ last' = IF r.raised = ""
                   THEN [op |-> "add", name |-> name, code |-> code,
                         smiles |-> smiles, file |-> r.file, hash |-> r.hash,
                         m |-> r.m, pre |-> Pre]
                   ELSE last
        /\ ops' = ops + 1
        /\ UNCHANGED <<backup_file, fallbacks, generator>>

AddCompound ==
    \E t \in AddTriples, fault \in Faults :
        AddCompoundWith(t[1], t[2], t[3], fault)

\* hash_manager.delete_compounds(hash_keys)
DeleteCompoundsWith(hash_keys, bfault, fault) ==
    LET d == delete_compounds(manager, csv_file, backup_file, hash_keys,
                              bfault, fault)
        call == [op |-> "delete", hash_keys |-> hash_keys,
                 bfault |-> bfault, fault |-> fault]
    IN  /\ result = Idle
        /\ ops < MaxOps
        /\ manager' = d.m
        /\ csv_file' = d.file
        /\ backup_file' = d.backup
        /\ result' = [call |-> call, pre |-> Pre, op |-> "delete",
                      out |-> d.result]
        /\ last' = IF d.result.success
                   THEN [op |-> "delete", file |-> d.file,
                         deleted |-> d.result.deleted_compounds]
                   ELSE last
        /\ ops' = ops + 1
        /\ UNCHANGED <<fallbacks, generator>>

DeleteCompounds ==
    \E hash_keys \in Batches(ManagerKeys \cup {AbsentHash}),
       faults \in FaultPairs :
        DeleteCompoundsWith(hash_keys, faults[1], faults[2])

\* simple_delete_compounds(selected_compounds) of the delete page
SimpleDeleteCompoundsWith(selected, bfault, fault) ==
    LET d == simple_delete_compounds(manager, csv_file, backup_file,
                                     selected, bfault, fault)
        call == [op |-> "simple_delete", hash_keys |-> selected,
                 bfault |-> bfault, fault |-> fault]
    IN  /\ result = Idle
        /\ ops < MaxOps
        /\ manager' = d.m
        /\ csv_file' = d.file
        /\ backup_file' = d.backup
        /\ result' = [call |-> call, pre |-> Pre, op |-> "simple_delete",
                      out |-> d.result]
        /\ last' = IF d.result.success
                   THEN [op |-> "simple_delete", file |-> d.file,
                         deleted |-> d.result.deleted_compounds]
                   ELSE last
        /\ ops' = ops + 1
        /\ UNCHANGED <<fallbacks, generator>>

SimpleDeleteCompounds ==
    \E selected \in Selections, faults \in FaultPairs :
        SimpleDeleteCompoundsWith(selected, faults[1], faults[2])

\* hash_manager.load_compounds()
LoadCompounds ==
    /\ result = Idle
    /\ manager' = load_compounds(csv_file)
    /\ result' = [op |-> "load", pre |-> Pre]
    /\ UNCHANGED <<csv_file, backup_file, fallbacks, generator, last, ops>>

\* generator.reload_database()
ReloadDatabase ==
    LET r == reload_database(generator, <<csv_file>> \o fallbacks)
    IN  /\ result = Idle
        /\ generator' = r.g
        /\ result' = [op |-> "reload", pre |-> Pre, raised |-> r.raised]
        /\ UNCHANGED <<csv_file, backup_file, fallbacks, manager, last, ops>>

\* add_new_compound(name, stilbar, smiles) of the add page
AddNewCompoundWith(name, code, smiles, fault) ==
    LET r == add_new_compound(generator, csv_file, fallbacks, name, code,
                              smiles, fault)
        call == [op |-> "add_new", name |-> name, code |-> code,
                 smiles |-> smiles, fault |-> fault]
    IN  /\ result = Idle
        /\ ops < MaxOps
        /\ generator' = r.g
        /\ csv_file' = r.file
        /\ result' = [call |-> call, pre |-> Pre, op |-> "add_new",
                      added |-> r.added]
        /\ last' = IF r.added
                   THEN [op |-> "add_new", name |-> name, code |-> code,
                         smiles |-> smiles, file |-> r.file]
                   ELSE last
        /\ ops' = ops + 1
        /\ UNCHANGED <<backup_file, fallbacks, manager>>

AddNewCompound ==
    \E t \in AddNewTriples, fault \in Faults :
        AddNewCompoundWith(t[1], t[2], t[3], fault)

\* generator.generate_smiles(input_code)
GenerateSmiles ==
    \E input_code \in LookupInputs :
        /\ result = Idle
        /\ result' = [op |-> "lookup", input |-> input_code,
                      out |-> generate_smiles(generator, input_code)]
        /\ UNCHANGED <<csv_file, backup_file, fallbacks, manager, generator,
                       last, ops>>

\* deletion_backend.delete_compounds(compound_ids)
LegacyDeleteCompoundsWith(compound_ids, bfault, fault) ==
    LET d == legacy_delete_compounds(csv_file, backup_file, compound_ids,
                                     bfault, fault)
        call == [op |-> "legacy_delete", compound_ids |-> compound_ids,
                 bfault |-> bfault, fault |-> fault]
    IN  /\ result = Idle
        /\ ops < MaxOps
        /\ csv_file' = d.file
        /\ backup_file' = d.backup
        /\ result' = [call |-> call, pre |-> Pre, op |-> "legacy_delete",
                      out |-> d.result]
        /\ last' = IF d.result.success
                   THEN [op |-> "legacy_delete", file |-> d.file,
                         ids |-> compound_ids]
                   ELSE last
        /\ ops' = ops + 1
        /\ UNCHANGED <<fallbacks, manager, generator>>

LegacyDeleteCompounds ==
    \E compound_ids \in (SUBSET LegacyIds) \ {{}}, faults \in FaultPairs :
        LegacyDeleteCompoundsWith(compound_ids, faults[1], faults[2])

\* hash_deletion_backend.delete_compounds_by_stilbars(stilbar_codes), run as
\* a script beside the session: the session's manager is not told
DeleteByStilbarsWith(stilbar_codes, bfault, fault) ==
    LET d == delete_compounds_by_stilbars(csv_file, backup_file,
                                          stilbar_codes, bfault, fault)
        call == [op |-> "delete_by_stilbars", stilbar_codes |-> stilbar_codes,
                 bfault |-> bfault, fault |-> fault]
    IN  /\ result = Idle
        /\ ops < MaxOps
        /\ csv_file' = d.file
        /\ backup_file' = d.backup
        /\ result' = [call |-> call, pre |-> Pre, op |-> "delete_by_stilbars",
                      out |-> d.result]
        /\ last' = IF d.result.success
                   THEN [op |-> "delete_by_stilbars", file |-> d.file,
                         deleted |-> d.result.deleted_compounds]
                   ELSE last
        /\ ops' = ops + 1
        /\ UNCHANGED <<fallbacks, manager, generator>>

DeleteByStilbars ==
    \E stilbar_codes \in Batches(StilbarInputs), faults \in FaultPairs :
        DeleteByStilbarsWith(stilbar_codes, faults[1], faults[2])

\* The script runs again for the next interaction: what the handler returned
\* is gone, the files and the session's manager and generator stay.
Rerun ==
    /\ result # Idle
    /\ result' = Idle
    /\ UNCHANGED <<csv_file, backup_file, fallbacks, manager, generator,
                   last, ops>>

Next ==
    \/ AddCompound
    \/ DeleteCompounds
    \/ SimpleDeleteCompounds
    \/ LoadCompounds
    \/ ReloadDatabase
    \/ AddNewCompound
    \/ GenerateSmiles
    \/ LegacyDeleteCompounds
    \/ DeleteByStilbars
    \/ Rerun

Spec == Init /\ [][Next]_vars

(***************************************************************************)
(* Two processes on one table.  The writer runs add_compound or            *)
(* delete_compounds as the code does its write: open(path, 'w') empties    *)
(* the file, writerows fills the buffer of the file object, and the rows   *)
(* reach the file when the buffer is flushed, in pieces or at close.  The  *)
(* reader is another process that builds a HashCompoundManager, which      *)
(* loads the table.  result holds the write in hand: the rows to store,    *)
(* the store once they are stored, and what the reader has seen.           *)
(***************************************************************************)
\* loads of the reader during one write
MaxReads == 1

\* add_compound up to open(self.csv_file, 'w') of _add_to_csv
WriterOpenAdd ==
    \E t \in AddTriples :
        LET r == add_compound(manager, csv_file, t[1], t[2], t[3], "none")
        IN  /\ result = Idle
            /\ ops < MaxOps
            /\ r.raised = ""
            /\ manager' = r.m
            /\ csv_file' = File(<<>>)
            /\ result' = [op |-> "writing", pre |-> Pre,
                          call |-> [op |-> "add", name |-> t[1],
                                    code |-> t[2], smiles |-> t[3]],
                          rows |-> r.file.rows, m |-> r.m, reads |-> <<>>]
            /\ ops' = ops + 1
            /\ UNCHANGED <<backup_file, fallbacks, generator, last>>

\* delete_compounds up to open(self.csv_file, 'w') of _remove_from_csv
WriterOpenDelete ==
    \E hash_keys \in Batches(ManagerKeys \cup {AbsentHash}) :
        LET d == delete_compounds(manager, csv_file, backup_file, hash_keys,
                                  "none", "none")
        IN  /\ result = Idle
            /\ ops < MaxOps
            /\ d.result.success
            /\ backup_file' = d.backup
            /\ csv_file' = File(<<>>)
            /\ result' = [op |-> "writing", pre |-> Pre,
                          call |-> [op |-> "delete", hash_keys |-> hash_keys],
                          rows |-> d.file.rows, m |-> d.m, reads |-> <<>>]
            /\ ops' = ops + 1
            /\ UNCHANGED <<fallbacks, manager, generator, last>>

\* writerows: the buffer is flushed and the file holds more rows, not all
WriterFlush ==
    /\ result.op = "writing"
    /\ \E n \in (Len(csv_file.rows) + 1)..(Len(result.rows) - 1) :
           csv_file' = File(SubSeq(result.rows, 1, n))
    /\ UNCHANGED <<backup_file, fallbacks, manager, generator, result, last,
                   ops>>

\* the with block of the write ends: the file is closed with all its rows,
\* and a delete goes on to take the records out of memory
WriterClose ==
    /\ result.op = "writing"
    /\ csv_file' = File(result.rows)
    /\ manager' = result.m
    /\ result' = [result EXCEPT !.op = "written"]
    /\ UNCHANGED <<backup_file, fallbacks, generator, last, ops>>

\* the writer has returned
WriterReturn ==
    /\ result.op = "written"
    /\ result' = Idle
    /\ UNCHANGED <<csv_file, backup_file, fallbacks, manager, generator,
                   last, ops>>

\* HashCompoundManager() in another process: load_compounds() of the file
\* as it is now
ReaderLoad ==
    /\ result.op = "writing"
    /\ Len(result.reads) < MaxReads
    /\ result' = [result EXCEPT
                    !.reads = Append(@, [file  |-> csv_file,
                                         store |-> load_compounds(csv_file)])]
    /\ UNCHANGED <<csv_file, backup_file, fallbacks, manager, generator,
                   last, ops>>

NextConcurrent ==
    \/ WriterOpenAdd
    \/ WriterOpenDelete
    \/ WriterFlush
    \/ WriterClose
    \/ WriterReturn
    \/ ReaderLoad

SpecConcurrent == Init /\ [][NextConcurrent]_vars

(***************************************************************************)
(* Properties                                                              *)
(***************************************************************************)
\* the resolver holds what a reload from the files gives
Reloaded ==
    generator = reload_database(generator, <<csv_file>> \o fallbacks).g

\* the input of a lookup without its blanks
CleanInput(input_code) == Replace(Strip(input_code), <<" ">>, <<>>)

\* the rows of a table below its header
Body(file) == IF file.rows = <<>> THEN <<>> ELSE Tail(file.rows)

\* a table whose rows all have the four columns
WellFormed(file) ==
    /\ file.exists
    /\ file.rows # <<>>
    /\ \A i \in 1..Len(file.rows) : Len(file.rows[i]) = 4

\* the rows of a table that carry the code
RowsWithCode(file, code) ==
    {i \in 1..Len(Body(file)) :
        /\ Len(Body(file)[i]) >= 3
        /\ CleanStilbar(Body(file)[i][3]) = CleanStilbar(code)}

\* C1: after add(name, code, structure) of a new identity through the
\* compound store, a reload of the resolver from the persisted table and
\* lookup(code) return exactly that structure.  Stated for a trimmed name
\* and a code that no other row of the table carries.
C1_AddReloadLookup ==
    (/\ result.op = "lookup"
     /\ last.op = "add"
     /\ csv_file = last.file
     /\ Reloaded
     /\ last.name = Strip(last.name)
     /\ last.code # <<>>
     /\ Cardinality(RowsWithCode(csv_file, last.code)) = 1
     /\ result.input = last.code)
    => result.out.smiles = last.smiles

\* C2: after delete of identity X succeeds, lookup of a code that mapped
\* only to X before the delete returns NotFound (no structure).
C2_DeletedCodeNotFound ==
    (/\ result.op = "lookup"
     /\ last.op \in {"delete", "simple_delete"}
     /\ csv_file = last.file
     /\ Len(last.deleted) = 1
     /\ last.deleted[1].stilbar # <<>>
     /\ RowsWithCode(csv_file, last.deleted[1].stilbar) = {}
     /\ CleanInput(result.input) = last.deleted[1].stilbar)
    => result.out.smiles = None

\* for a cleaned input, whether each strategy of the resolver succeeds on
\* the resolver's tables, with the method a result of that strategy names
ExactMatch(c) == HasKey(generator.barcode_to_smiles, c)

NormalizedMatch(c) ==
    HasKey(generator.barcode_to_smiles, Replace(c, <<"-">>, <<"ndash">>))

BracketedMatch(c) ==
    /\ StartsWith(c, <<"|">>)
    /\ EndsWith(c, <<"|">>)
    /\ \E k \in DictKeys(generator.barcode_to_smiles) :
          Contains(k, c) \/ Contains(k, Replace(c, <<"-">>, <<"ndash">>))

IndexMatch(c) == HasKey(generator.compound_number_to_smiles, c)

DuplicateMatch(c) ==
    \E k \in DictKeys(generator.barcode_to_smiles) :
        StartsWith(k, c \o <<"_", "c", "p", "d">>)

PrefixMatch(c) ==
    /\ StartsWith(c, <<"c", "o", "m", "p", "o", "u", "n", "d", "_">>)
    /\ HasKey(generator.compound_number_to_smiles,
              Replace(c, <<"c", "o", "m", "p", "o", "u", "n", "d", "_">>, <<>>))

FallbackMatch(c) ==
    c \in {<<"H">>, <<"T">>, <<"C">>, <<"P">>, <<"M">>, <<"X">>}

SixStrategies(c) ==
    << <<ExactMatch(c), "barcode_lookup">>,
       <<NormalizedMatch(c), "barcode_lookup_normalized">>,
       <<BracketedMatch(c), "partial_barcode_match">>,
       <<IndexMatch(c), "compound_number_lookup">>,
       <<DuplicateMatch(c), "duplicate_barcode_lookup">>,
       <<FallbackMatch(c), "basic_monomer_lookup">> >>

SevenStrategies(c) ==
    SubSeq(SixStrategies(c), 1, 5)
    \o << <<PrefixMatch(c), "compound_prefix_lookup">> >>
    \o SubSeq(SixStrategies(c), 6, 6)

\* the method of the earliest strategy that succeeds, "lookup_failed" if
\* none does
EarliestMethod(strategies) ==
    IF \E i \in 1..Len(strategies) : strategies[i][1]
    THEN strategies[CHOOSE i \in 1..Len(strategies) :
                        /\ strategies[i][1]
                        /\ \A j \in 1..(i - 1) : ~strategies[j][1]][2]
    ELSE "lookup_failed"

\* a lookup answers by the earliest of the strategies that succeeds, and
\* with NotFound exactly when none succeeds
AnswersByEarliest(strategies) ==
    /\ result.out.method = EarliestMethod(strategies)
    /\ result.out.smiles = None <=> EarliestMethod(strategies) = "lookup_failed"

\* C3, as the spec states it: lookup returns the result of the earliest
\* strategy that succeeds in the order exact code match, normalized code
\* match, bracketed partial match, sequential-index match,
\* disambiguated-duplicate match, fixed fallback table, and NotFound exactly
\* when none of these six succeeds.
C3_SixStrategies ==
    result.op = "lookup"
    => AnswersByEarliest(SixStrategies(CleanInput(result.input)))

\* C3, amended: the order has a seventh strategy, the "compound_<n>" prefix
\* match, between the disambiguated-duplicate match and the fallback table;
\* lookup returns the result of the earliest of the seven that succeeds and
\* NotFound exactly when none of the seven succeeds.
C3_SevenStrategies ==
    result.op = "lookup"
    => AnswersByEarliest(SevenStrategies(CleanInput(result.input)))

\* C3: a lookup that only the prefix match answers
C3_Witness ==
    /\ result.op = "lookup"
    /\ result.out.method = "compound_prefix_lookup"
    /\ result.out.smiles # None
    /\ EarliestMethod(SixStrategies(CleanInput(result.input))) = "lookup_failed"

\* the files' first that exists is the one the resolver loads
LoadedFile ==
    LET files == <<csv_file>> \o fallbacks
    IN  IF \E i \in 1..Len(files) : files[i].exists
        THEN files[CHOOSE i \in 1..Len(files) :
                      /\ files[i].exists
                      /\ \A j \in 1..(i - 1) : ~files[j].exists]
        ELSE NoFile

\* a row of the table that the resolver loads as a compound
IsCompound(row) ==
    /\ Len(row) >= 4
    /\ IsIntLiteral(Strip(row[1]))
    /\ ParseInt(Strip(row[1])) # 0
    /\ Strip(row[4]) # <<>>

\* C4: for every compound loaded from the table that has a non-empty
\* barcode, generate_smiles(barcode) returns that compound's own SMILES,
\* also when it shares the barcode with another compound.
C4_OwnSmiles ==
    (result.op = "lookup" /\ Reloaded)
    => \A i \in 1..Len(Body(LoadedFile)) :
          LET row == Body(LoadedFile)[i]
          IN  (/\ IsCompound(row)
               /\ Strip(row[3]) # <<>>
               /\ result.input = Strip(row[3]))
              => result.out.smiles = Strip(row[4])

\* a purely numeric input
NumericInput(c) == c # <<>> /\ \A i \in 1..Len(c) : c[i] \in DigitSet

\* the compounds of the loaded table, in the order of the table
StoredRecords == SelectSeq(Body(LoadedFile), IsCompound)

\* the compounds of the loaded table whose number column is k
RecordsNumbered(k) ==
    SelectSeq(StoredRecords, LAMBDA row : ParseInt(Strip(row[1])) = k)

C6_DuplicateRejected ==
    (/\ result.op = "add"
     /\ HasKey(result.pre.manager.compounds,
               generate_hash(result.call.code, result.call.name)))
    => /\ result.raised = "ValueError"
       /\ manager = result.pre.manager
       /\ csv_file = result.pre.csv_file

\* C6: an add of an identity the store holds with another structure
C6_Witness ==
    /\ result.op = "add"
    /\ HasKey(result.pre.manager.compounds, result.hash)
    /\ DictGet(result.pre.manager.compounds, result.hash).smiles
           # result.call.smiles
    /\ result.raised = "ValueError"

\* the requested keys the store held when the delete began
PresentKeys ==
    {result.call.hash_keys[i] : i \in 1..Len(result.call.hash_keys)}
    \cap DictKeys(result.pre.manager.compounds)

\* the positions of the request whose key the store did not hold
AbsentPositions ==
    {i \in 1..Len(result.call.hash_keys) :
        result.call.hash_keys[i] \notin DictKeys(result.pre.manager.compounds)}

\* C7: for a delete batch with at least one identity present in the store
\* and at least one absent, delete removes every present identity from the
\* store and the table, reports success with deleted_count the number of
\* present identities, and records one error per absent identity.  Stated
\* for writes that do not fail and a table whose rows all have four columns.
C7_MixedBatch ==
    (/\ result.op = "delete"
     /\ result.call.bfault = "none"
     /\ result.call.fault = "none"
     /\ WellFormed(result.pre.csv_file)
     /\ PresentKeys # {}
     /\ AbsentPositions # {})
    => /\ result.out.success
       /\ result.out.deleted_count = Cardinality(PresentKeys)
       /\ Len(result.out.errors) = Cardinality(AbsentPositions)
       /\ \A h \in PresentKeys :
             /\ ~HasKey(manager.compounds, h)
             /\ ~HasKey(load_compounds(csv_file).compounds, h)

\* the rows of the table whose first column is one of the ids
RowsWithIds(file, ids) ==
    {i \in 1..Len(Body(file)) :
        /\ Len(Body(file)[i]) >= 1
        /\ Strip(Body(file)[i][1]) \in {Strip(cid) : cid \in ids}}

\* nothing of the table, the backup and the index has changed
Untouched ==
    /\ csv_file = result.pre.csv_file
    /\ backup_file = result.pre.backup_file
    /\ manager = result.pre.manager

\* C8: if none of the identities requested in a delete is present in the
\* store, delete reports failure (success false, deleted_count 0) and leaves
\* the persisted table, the backup file and the in-memory index unchanged;
\* so does the delete by ids of deletion_backend.py.
C8_NonePresent ==
    /\ (result.op = "delete" /\ PresentKeys = {})
       => /\ ~result.out.success
          /\ result.out.deleted_count = 0
          /\ Untouched
    /\ (/\ result.op = "legacy_delete"
        /\ RowsWithIds(result.pre.csv_file, result.call.compound_ids) = {})
       => /\ ~result.out.success
          /\ result.out.deleted_count = 0
          /\ Untouched

\* C8: a delete of absent identities only, from a store that is not empty
C8_Witness ==
    /\ result.op = "delete"
    /\ PresentKeys = {}
    /\ result.pre.manager.compounds # <<>>
    /\ result.pre.csv_file.exists
    /\ ~result.out.success

\* C9: in every delete that changes the persisted table, the backup is
\* written before the table is overwritten and holds exactly the rows the
\* table held immediately before that delete.
C9_BackupHoldsOldTable ==
    (/\ result.op \in {"delete", "simple_delete", "legacy_delete"}
     /\ csv_file # result.pre.csv_file)
    => backup_file = File(result.pre.csv_file.rows)

\* C9: a delete that rewrites the table and replaces an older backup
C9_Witness ==
    /\ result.op \in {"delete", "simple_delete", "legacy_delete"}
    /\ result.out.success
    /\ csv_file # result.pre.csv_file
    /\ result.pre.backup_file.exists
    /\ backup_file # result.pre.backup_file

\* C10: if writing the new table fails during add, or writing the filtered
\* table fails during delete, the in-memory index is in its pre-mutation
\* state when the operation returns or raises.
C10_IndexAsBeforeOnWriteFailure ==
    /\ (/\ result.op = "add"
        /\ result.pre.csv_file.exists
        /\ result.call.fault # "none"
        /\ result.raised = "Exception")
       => manager = result.pre.manager
    /\ (/\ result.op = "delete"
        /\ result.call.bfault = "none"
        /\ result.call.fault # "none"
        /\ PresentKeys # {})
       => manager = result.pre.manager

\* list_all(): the identity, name, code and structure of every record of the
\* index, in its order
list_all(m) ==
    [i \in 1..Len(get_all_compounds(m)) |->
        [identity  |-> get_all_compounds(m)[i].hash,
         name      |-> get_all_compounds(m)[i].name,
         code      |-> get_all_compounds(m)[i].stilbar,
         structure |-> get_all_compounds(m)[i].smiles]]

\* the operation in hand is a delete of exactly the identity that the add
\* before it returned, begun in the state that add left, with no write failing
DeleteOfJustAdded ==
    /\ result.op = "delete"
    /\ result.pre.last.op = "add"
    /\ result.pre.csv_file = result.pre.last.file
    /\ result.pre.manager = result.pre.last.m
    /\ result.call.hash_keys = <<result.pre.last.hash>>
    /\ result.call.bfault = "none"
    /\ result.call.fault = "none"

\* the state the add before the operation in hand began in
BeforeAdd == result.pre.last.pre

\* C11: for every store state and every triple accepted by add, add followed
\* by delete of the returned identity leaves list_all() with the same length
\* and the same records as before the add, both in the in-memory index and
\* after a reload from the persisted table.  Stated for a trimmed name, a
\* table whose rows all have four columns and writes that do not fail.
C11_AddDeleteRoundTrip ==
    (/\ DeleteOfJustAdded
     /\ result.pre.last.name = Strip(result.pre.last.name)
     /\ WellFormed(BeforeAdd.csv_file))
    => /\ list_all(manager) = list_all(BeforeAdd.manager)
       /\ list_all(load_compounds(csv_file)) = list_all(BeforeAdd.manager)

\* the identities of the code-to-identity map that no record of the index has
Orphans(m) ==
    {m.stilbar_to_hash[i][2] : i \in 1..Len(m.stilbar_to_hash)}
    \ DictKeys(m.compounds)

\* C12: after any sequence of load, add and delete, every identity held in
\* the code-to-identity map is the identity of a record currently present in
\* the store (a delete removes the record and every code mapping that refers
\* to it together; no orphaned references).
C12_NoOrphans == Orphans(manager) = {}

\* what a resolver constructed now would hold
FreshGenerator ==
    load_all_62_compounds(EmptyGenerator, <<csv_file>> \o fallbacks).g

\* none of the files the resolver reads exists
NoFileAtAll ==
    \A i \in 1..Len(<<csv_file>> \o fallbacks) :
        ~(<<csv_file>> \o fallbacks)[i].exists

\* C13: every load (and every resolver reload) fully rebuilds the in-memory
\* index from the persisted table: the index after load is a function of the
\* table contents alone and contains no record or code mapping left over
\* from the state before the load, also when the table file is missing.
\* The index after a load is the one a manager constructed on the table
\* has, the resolver after a reload the one a resolver constructed on the
\* files has, and both are empty when there is no file.
C13_LoadRebuilds ==
    /\ (result.op = "load" \/ (result.op = "simple_delete" /\ result.out.success))
       => /\ manager = load_compounds(csv_file)
          /\ ~csv_file.exists => manager = EmptyManager
    /\ (result.op = "reload" \/ (result.op = "add_new" /\ result.added))
       => /\ generator = FreshGenerator
          /\ NoFileAtAll => generator = EmptyGenerator

\* C13: a reload of a resolver that held a compound the table has no more
C13_Witness ==
    /\ result.op = "reload"
    /\ DictKeys(result.pre.generator.compound_number_to_smiles)
           \ DictKeys(generator.compound_number_to_smiles) # {}
    /\ generator # EmptyGenerator

\* the operation in hand is a load of the table an add has left
LoadAfterAdd ==
    /\ result.op = "load"
    /\ result.pre.last.op = "add"
    /\ result.pre.csv_file = result.pre.last.file

\* C14: the identity returned by add for a record equals the identity under
\* which that same record is found after a subsequent load of the persisted
\* table, for every name and code including an empty code (where identity is
\* derived from the name alone).
C14_IdentityStableAcrossLoad ==
    LoadAfterAdd
    => /\ HasKey(manager.compounds, result.pre.last.hash)
       /\ LET found == DictGet(manager.compounds, result.pre.last.hash)
          IN  /\ found.name = Strip(result.pre.last.name)
              /\ found.stilbar = Strip(result.pre.last.code)
              /\ found.smiles = Strip(result.pre.last.smiles)

\* the identity, name, code and structure of the record the index m holds
\* under the identity h, None if it holds none
RecordOf(m, h) ==
    IF HasKey(m.compounds, h)
    THEN [identity  |-> DictGet(m.compounds, h).hash,
          name      |-> DictGet(m.compounds, h).name,
          code      |-> DictGet(m.compounds, h).stilbar,
          structure |-> DictGet(m.compounds, h).smiles]
    ELSE None

\* the identities of the store that the delete in hand was not asked to delete
NotRequested ==
    DictKeys(result.pre.manager.compounds)
    \ {result.call.hash_keys[i] : i \in 1..Len(result.call.hash_keys)}

\* C15: deleting a set of identities leaves every record whose identity is
\* not in the set unchanged: it is still present with the same identity,
\* name, code and structure in the in-memory index and after a subsequent
\* load of the persisted table.  Stated for writes that do not fail and,
\* for the load, for a record that a load of the table before the delete
\* finds as the index holds it.
C15_OthersUnchanged ==
    (/\ result.op = "delete"
     /\ result.call.bfault = "none"
     /\ result.call.fault = "none")
    => \A h \in NotRequested :
          /\ RecordOf(manager, h) = RecordOf(result.pre.manager, h)
          /\ RecordOf(load_compounds(result.pre.csv_file), h)
                 = RecordOf(result.pre.manager, h)
             => RecordOf(load_compounds(csv_file), h)
                    = RecordOf(result.pre.manager, h)

\* the text with a blank after each of its characters
RECURSIVE Interspaced(_)
Interspaced(s) ==
    IF s = <<>> THEN <<>> ELSE <<Head(s), " ">> \o Interspaced(Tail(s))

\* ways to write a code that differ only in surrounding whitespace, internal
\* spaces, or hyphen versus long dash
CodeVariants(code) ==
    { code,
      <<" ">> \o code,
      code \o <<"\t", "\n">>,
      Interspaced(code),
      Replace(code, <<"-">>, <<"ndash">>),
      Replace(code, <<"ndash">>, <<"-">>),
      <<" ">> \o Interspaced(Replace(code, <<"ndash">>, <<"-">>)) }

\* ways to write a name that differ only in surrounding whitespace
NameVariants(name) ==
    { name, Strip(name), <<" ">> \o name, name \o <<"\n">>,
      <<"\t">> \o name \o <<" ">> }

\* C16: the identity function is deterministic and depends only on the
\* normalized code and the trimmed name: two calls with codes that differ
\* only in surrounding whitespace, internal spaces or hyphen versus long
\* dash, and names that differ only in surrounding whitespace, yield the
\* same 8-character identity.  Checked for the identity of every add against
\* the identity of each other way to write its code and name.
C16_IdentityOfNormalized ==
    result.op = "add"
    => /\ Len(result.hash) = 8
       /\ \A code \in CodeVariants(result.call.code),
             name \in NameVariants(result.call.name) :
               generate_hash(code, name) = result.hash

\* C16: an add refused because the store holds its identity from a load of
\* the same code written with the long dash where the add has a hyphen
C16_Witness ==
    /\ result.op = "add"
    /\ result.raised = "ValueError"
    /\ Contains(result.call.code, <<"-">>)
    /\ DictGet(result.pre.manager.compounds, result.hash).stilbar
           = Replace(result.call.code, <<"-">>, <<"ndash">>)

\* C17: after any sequence of load, add and delete, every record in the
\* store has a non-empty structure string; add never admits a record with an
\* empty structure and load never admits a row whose structure is empty
\* after trimming.  Stated for the record of an add that returns its
\* identity and for the records of the store after a load.
C17_StructureNonEmpty ==
    /\ (result.op = "add" /\ result.raised = "")
       => DictGet(manager.compounds, result.hash).smiles # <<>>
    /\ result.op = "load"
       => \A i \in 1..Len(get_all_compounds(manager)) :
              get_all_compounds(manager)[i].smiles # <<>>

HexDigitSet == DigitSet \cup {"a", "b", "c", "d", "e", "f"}

\* the first columns of the data rows of a table that are not blank rows
FirstColumns(file) ==
    {Body(file)[i][1] : i \in {j \in 1..Len(Body(file)) : Body(file)[j] # <<>>}}

\* a sequence number of the legacy layout
IsSequenceNumber(field) ==
    field # <<>> /\ \A i \in 1..Len(field) : field[i] \in DigitSet

\* a derived identity of the hash layout
IsIdentity(field) ==
    Len(field) = 8 /\ \A i \in 1..Len(field) : field[i] \in HexDigitSet

\* C18: after any sequence of add and delete operations on a table, the
\* first column of the persisted table is in one layout only: either every
\* data row carries a small integer sequence number or every data row
\* carries a derived identity string, never a mixture.
C18_OneLayout ==
    \/ \A field \in FirstColumns(csv_file) : IsSequenceNumber(field)
    \/ \A field \in FirstColumns(csv_file) : IsIdentity(field)

\* the methods by which a lookup answers from a stored record, with the
\* confidence (in tenths) the claim gives each
RecordMethods ==
    << <<"barcode_lookup", 10>>, <<"barcode_lookup_normalized", 10>>,
       <<"partial_barcode_match", 8>>, <<"compound_number_lookup", 10>>,
       <<"duplicate_barcode_lookup", 10>>, <<"compound_prefix_lookup", 10>> >>

\* the metadata names a record the resolver holds, with the structure returned
NamesStoredRecord(out) ==
    /\ out.compound_number # Unknown
    /\ out.compound_name # Unknown
    /\ \E i \in 1..Len(generator.compound_info) :
          LET info == generator.compound_info[i][2]
          IN  /\ info.number = out.compound_number
              /\ info.name = out.compound_name
              /\ info.smiles = out.smiles

\* C19: every successful lookup returns metadata containing the strategy
\* used, a confidence that is 1.0 for exact, index and fallback matches and
\* below 1.0 for partial matches, and, whenever the match resolves to a
\* stored record, that record's number/identity and name (never a
\* placeholder such as 'Unknown').
C19_Metadata ==
    (result.op = "lookup" /\ result.out.smiles # None)
    => \/ /\ result.out.method = "basic_monomer_lookup"
          /\ result.out.confidence = 10
       \/ /\ \E i \in 1..Len(RecordMethods) :
                /\ result.out.method = RecordMethods[i][1]
                /\ result.out.confidence = RecordMethods[i][2]
                /\ result.out.method = "partial_barcode_match"
                   <=> result.out.confidence < 10
          /\ NamesStoredRecord(result.out)

\* the cleaned input with its hyphens turned into long dashes
NormalizedInput(c) == Replace(c, <<"-">>, <<"ndash">>)

\* the cleaned input begins and ends with the bracket character
Bracketed(c) == StartsWith(c, <<"|">>) /\ EndsWith(c, <<"|">>)

\* the codes the resolver holds, in load order, that contain the fragment
\* as it is or normalized
CodesContaining(c) ==
    SelectSeq([i \in 1..Len(generator.barcode_to_smiles) |->
                  generator.barcode_to_smiles[i][1]],
              LAMBDA code : Contains(code, c)
                            \/ Contains(code, NormalizedInput(c)))

\* sub is in s and is not the whole of it
ProperSubstring(sub, s) == Contains(s, sub) /\ Len(sub) < Len(s)

\* the methods that resolve an input to a stored code
CodeMethods ==
    {"barcode_lookup", "barcode_lookup_normalized", "partial_barcode_match",
     "duplicate_barcode_lookup"}

\* the stored codes of the records that the metadata of a result can name
MatchedCodes(out) ==
    {generator.compound_info[i][2].barcode :
        i \in {j \in 1..Len(generator.compound_info) :
                  /\ generator.compound_info[j][2].number = out.compound_number
                  /\ generator.compound_info[j][2].name = out.compound_name
                  /\ generator.compound_info[j][2].smiles = out.smiles}}

BuiltInStructures ==
    << << <<"H">>, <<"OC1=CC(O)=CC(CCC2=CC=C(O)C=C2)=C1">> >>,
       << <<"T">>, <<"c1cc(O)cc(c1)C=Cc2cc(O)cc(O)c2">> >>,
       << <<"C">>, <<"c1cc(O)cc(c1)C=Cc2cc(O)cc(O)c2">> >>,
       << <<"P">>, <<"COc1cc(CCc2cc(O)cc(O)c2)cc(O)c1">> >>,
       << <<"M">>, <<"COc1cc(O)cc(c1)CCc2cc(O)cc(O)c2">> >>,
       << <<"X">>, <<"c1cc(O)cc(c1)CCc2cc(O)cc(OC)c2">> >> >>

\* C21: the fallback table is fixed and built-in: when lookup answers from
\* the fallback table for a recognized single-letter monomer symbol, the
\* structure returned is the same for every store state, and the fallback is
\* used only if no stored code, index or duplicate entry matched the input.
C21_FallbackFixed ==
    (result.op = "lookup" /\ result.out.method = "basic_monomer_lookup")
    => LET c == CleanInput(result.input)
       IN  /\ HasKey(BuiltInStructures, c)
           /\ result.out.smiles = DictGet(BuiltInStructures, c)
           /\ ~ExactMatch(c)
           /\ ~NormalizedMatch(c)
           /\ ~BracketedMatch(c)
           /\ ~IndexMatch(c)
           /\ ~DuplicateMatch(c)

\* a row of the table with its four fields, a number and a structure
HasRequiredFields(row) ==
    Len(row) >= 4 /\ row[1] # <<>> /\ row[4] # <<>>

\* the index holds a record under the identity a load gives the row (of
\* rows with one identity the index keeps the last)
LoadedByManager(row) ==
    HasKey(manager.compounds,
           generate_hash(IF Strip(row[3]) # <<>> THEN row[3] ELSE row[2],
                         row[2]))

\* the table is absent or has not even a header
AbsentOrEmpty(file) == ~file.exists \/ file.rows = <<>>

\* C22: load fails softly: when the table file is absent or cannot be
\* parsed, load raises no error and leaves an empty store; a row lacking its
\* required fields is skipped and every other row of the same table is still
\* loaded.  For the load of the manager and the load of the resolver.
C22_LoadFailsSoftly ==
    /\ result.op = "load"
       => /\ AbsentOrEmpty(csv_file) => manager = EmptyManager
          /\ \A i \in 1..Len(Body(csv_file)) :
                HasRequiredFields(Body(csv_file)[i])
                => LoadedByManager(Body(csv_file)[i])
    /\ result.op = "reload"
       => /\ ~result.raised
          /\ AbsentOrEmpty(LoadedFile) => generator = EmptyGenerator
          /\ \A i \in 1..Len(Body(LoadedFile)) :
                IsCompound(Body(LoadedFile)[i])
                => HasKey(generator.compound_number_to_smiles,
                          IntToStr(ParseInt(Strip(Body(LoadedFile)[i][1]))))

\* C23: a reader that loads the table while another process runs add or
\* delete sees the whole table as it was before the write or the whole table
\* as it is after it, never an emptied or partly written table; and the
\* store it builds is the store of one of those two tables.
C23_ReaderSeesWhole ==
    result.op \in {"writing", "written"}
    => \A i \in 1..Len(result.reads) :
          /\ result.reads[i].file \in {result.pre.csv_file, File(result.rows)}
          /\ result.reads[i].store
                \in {load_compounds(result.pre.csv_file),
                     load_compounds(File(result.rows))}

\* C24: normalizing a code (trim, take out the internal spaces, write every
\* hyphen as the long dash) a second time changes nothing, in the identity
\* function and in the resolver: the identity of the normalized code is the
\* identity of the code, and the resolver given a normalized code has nothing
\* left to convert.
C24_NormalizationIdempotent ==
    /\ result.op = "add"
       => \A v \in CodeVariants(result.call.code) :
             /\ CleanStilbar(CleanStilbar(v)) = CleanStilbar(v)
             /\ generate_hash(CleanStilbar(v), result.call.name)
                    = generate_hash(v, result.call.name)
    /\ result.op = "lookup"
       => \A v \in CodeVariants(result.input) :
             LET n == NormalizedInput(CleanInput(v))
             IN  /\ CleanInput(n) = n
                 /\ NormalizedInput(n) = n
                 /\ generate_smiles(generator, n).method
                        # "barcode_lookup_normalized"

\* an add stored a code that normalization changes, and a lookup was given
\* one
C24_Witness ==
    \/ /\ result.op = "add"
       /\ result.raised = ""
       /\ CleanStilbar(result.call.code) # result.call.code
    \/ /\ result.op = "lookup"
       /\ NormalizedInput(CleanInput(result.input)) # result.input
       /\ result.out.method = "barcode_lookup_normalized"

\* the largest compound number asked for
MaxNumber == 4

\* C25: for every compound number n of the loaded table
\* generate_smiles_by_number(n) returns the SMILES of a compound whose number
\* is n, and for every number that is not in the table it returns None,
\* whatever barcodes the table contains.
C25_ByNumber ==
    Reloaded
    => \A n \in 1..MaxNumber :
          LET rows == RecordsNumbered(n)
              out  == generate_smiles_by_number(generator, n)
          IN  /\ rows # <<>>
                 => \E i \in 1..Len(rows) : out.smiles = Strip(rows[i][4])
              /\ rows = <<>> => out.smiles = None

\* the (code, name) pairs, code normalized and name trimmed, whose
\* concatenation code + '|' + name is the text t
PairsHashedAs(t) ==
    { p \in { <<SubSeq(t, 1, i - 1), SubSeq(t, i + 1, Len(t))>> :
                i \in {j \in 1..Len(t) : t[j] = "|"} } :
        CleanStilbar(p[1]) = p[1] /\ Strip(p[2]) = p[2] }

\* C26: two records whose (normalized code, trimmed name) pairs differ are
\* never hashed from the same string: for every record of the store that has
\* its identity from its code and name, no other pair over the alphabet of
\* the notation, '|' included, gives the identity function the text it
\* hashed for the record.
C26_ConcatenationInjective ==
    \A i \in 1..Len(get_all_compounds(manager)) :
        LET rec == get_all_compounds(manager)[i]
        IN  rec.hash = generate_hash(rec.stilbar, rec.name)
            => \A p \in PairsHashedAs(Combined(rec.stilbar, rec.name)) :
                  /\ p = <<CleanStilbar(rec.stilbar), Strip(rec.name)>>
                  /\ generate_hash(p[1], p[2]) = rec.hash

\* C27: whenever delete_compounds returns success false, for any list of
\* identities, lists that name one identity twice included, the persisted
\* table and the in-memory index are as they were before the call.  Stated
\* for the calls whose writes to the backup and to the table do not fail.
C27_FailedDeleteChangesNothing ==
    (/\ result.op = "delete"
     /\ result.call.bfault = "none"
     /\ result.call.fault = "none"
     /\ ~result.out.success)
    => /\ csv_file = result.pre.csv_file
       /\ manager = result.pre.manager

\* C28: after any sequence of load, add and delete, every record of the
\* store with a non-empty code is retrievable by code:
\* get_compound_by_stilbar(code) returns a record whose code is that code,
\* also when several records share the code and one of them was deleted.
C28_RetrievableByCode ==
    \A i \in 1..Len(get_all_compounds(manager)) :
        LET rec == get_all_compounds(manager)[i]
        IN  rec.stilbar # <<>>
            => /\ FoundByCode(manager, rec.stilbar)
               /\ get_compound_by_stilbar(manager, rec.stilbar).stilbar
                      = rec.stilbar

\* the rows of the table the legacy delete started from whose first column
\* is not one of the requested ids, blank rows among them, in their order
RowsNotRequested ==
    SelectSeq(Body(result.pre.csv_file),
              LAMBDA row : ~(/\ Len(row) >= 1
                             /\ Strip(row[1])
                                   \in {Strip(cid) :
                                          cid \in result.call.compound_ids}))

\* C29: in the legacy deletion_backend.delete_compounds, on success
\* csv_rows_before minus csv_rows_after equals deleted_count, and every row
\* of the table whose first column is not one of the requested ids is kept in
\* the rewritten table in its original relative order, for every table
\* content, blank rows included.
C29_LegacyCounts ==
    (result.op = "legacy_delete" /\ result.out.success)
    => /\ result.out.csv_rows_before - result.out.csv_rows_after
              = result.out.deleted_count
       /\ Body(csv_file) = WrittenRows(RowsNotRequested)

\* the codes of the request in hand that the table it started from does not
\* resolve to a record
UnresolvedCodes ==
    SelectSeq(result.call.stilbar_codes,
              LAMBDA c : ~FoundByCode(load_compounds(result.pre.csv_file), c))

\* C30: delete_compounds_by_stilbars is all-or-nothing at code resolution: if
\* any requested code does not resolve to a record, it returns success false
\* with one error per unresolved code and deletes nothing, leaving the table
\* and the backup untouched even though other requested codes resolved.
C30_AllOrNothing ==
    (result.op = "delete_by_stilbars" /\ UnresolvedCodes # <<>>)
    => /\ ~result.out.success
       /\ result.out.deleted_count = 0
       /\ result.out.deleted_compounds = <<>>
       /\ result.out.errors
              = [i \in 1..Len(UnresolvedCodes) |->
                    StilbarNotFound(UnresolvedCodes[i])]
       /\ csv_file = result.pre.csv_file
       /\ backup_file = result.pre.backup_file

\* a request with a code that resolves and a code that does not was refused
C30_Witness ==
    /\ result.op = "delete_by_stilbars"
    /\ UnresolvedCodes # <<>>
    /\ Len(UnresolvedCodes) < Len(result.call.stilbar_codes)
    /\ ~result.out.success
    /\ csv_file = result.pre.csv_file
    /\ Len(Body(csv_file)) > 0

=============================================================================
